---- MODULE Spec2Model ----
(***************************************************************************)
(* A model of the RAG document generator: the sentence segmenter and the   *)
(* chunker of DocumentProcessor, document ingestion and deletion against   *)
(* the vector index, and the generation request of LLMService.             *)
(*                                                                         *)
(* A text is a sequence of one-character strings.  Scores are fixed-point  *)
(* numbers in units of 1/100000 (0.8 is 80000).                            *)
(***************************************************************************)
EXTENDS Integers, Sequences, FiniteSets, TLC

VARIABLES
    \* ---- DocumentProcessor._chunk_text, one run
    text,            \* the text handed to _chunk_text
    chunk_size,      \* settings.chunk_size
    overlap,         \* settings.chunk_overlap
    sentences,       \* the list _split_into_sentences returned
    si,              \* position of the for loop over sentences (1-based)
    chunks,          \* the chunks emitted so far
    current_chunk,   \* positions in sentences of the accumulated sentences
    current_tokens,  \* running token count of current_chunk
    cpc,             \* "start", "loop" or "done"
    \* ---- the vector index and the upload and delete handlers
    index,           \* the points of the Qdrant collection
    files,           \* the files of the upload request being handled
    tpc,             \* per file: "reading" (suspended in file.read) or "done"
    results,         \* per file: the UploadedFileInfo of process_single_file
    upload_response, \* the DocumentUploadResponse, once all files are done
    requests,        \* upload requests handled so far
    next_uuid,       \* the next value uuid.uuid4() returns
    delete_response, \* the outcome of the last delete request
    \* ---- LLMService.generate behind the generate route, one request
    gpc,             \* position in generate: "idle", "received", "embedded",
                     \* "searched", "completed", "attributed" or "done"
    request,         \* the GenerateRequest
    query_embedding, \* the local query_embedding
    search_args,     \* the arguments generate's search handed to client.search
    calls,           \* the collaborators invoked so far, in order
    hits,            \* the local chunks: what vector_store.search returned
    warning,         \* the local warning
    prompt,          \* the messages handed to the completion model
    generated_content, \* the local generated_content
    sources,         \* the local sources
    outcome,         \* what the route answered
    \* ---- EmbeddingService.get_embeddings_batch, one call
    bpc,             \* "idle", "awaiting" (the API call) or "done"
    batch_texts,     \* the argument texts
    batch_result     \* what the call returned or raised

chunkVars == <<text, chunk_size, overlap, sentences, si, chunks,
               current_chunk, current_tokens, cpc>>

ingestVars == <<index, files, tpc, results, upload_response, requests,
                next_uuid, delete_response>>

genVars == <<gpc, request, query_embedding, search_args, calls, hits, warning, prompt,
             generated_content, sources, outcome>>

embedVars == <<bpc, batch_texts, batch_result>>

vars == <<chunkVars, ingestVars, genVars, embedVars>>

(***************************************************************************)
(* Bounds of the model.                                                    *)
(***************************************************************************)
MaxLen == 8
MaxChunkSize == 5
MaxPieces == 2       \* chunks of a document found in the collection at start
MaxFiles == 2        \* files of one upload request
MaxRequests == 2     \* upload requests in one run
MaxTopK == 3         \* largest top_k a request asks for
MaxTexts == 3        \* texts of one batch embedding call
MaxSegLen == 5       \* characters of a text handed to the segmenter alone

\* The characters texts are drawn from: a letter, a terminal punctuation
\* mark and a whitespace character.
Alphabet == {"a", ".", " "}

Texts == UNION {[1..n -> Alphabet] : n \in 0..MaxLen}

(***************************************************************************)
(* Python string helpers.                                                  *)
(***************************************************************************)
Whitespace == {" ", "\n"}

RECURSIVE LStrip(_)
LStrip(s) ==
    IF s # <<>> /\ Head(s) \in Whitespace THEN LStrip(Tail(s)) ELSE s

RECURSIVE RStrip(_)
RStrip(s) ==
    IF s # <<>> /\ s[Len(s)] \in Whitespace
    THEN RStrip(SubSeq(s, 1, Len(s) - 1))
    ELSE s

\* str.strip()
Strip(s) == RStrip(LStrip(s))

\* str.split(): the maximal runs of non-whitespace characters, in order.
RECURSIVE SplitWords(_, _, _)
SplitWords(s, word, acc) ==
    IF s = <<>>
    THEN IF word = <<>> THEN acc ELSE Append(acc, word)
    ELSE IF Head(s) \in Whitespace
         THEN SplitWords(Tail(s), <<>>,
                         IF word = <<>> THEN acc ELSE Append(acc, word))
         ELSE SplitWords(Tail(s), Append(word, Head(s)), acc)

Split(s) == SplitWords(s, <<>>, <<>>)

\* str.split(sep): cut at every separator, empty pieces kept.
RECURSIVE SplitOnChar(_, _, _, _)
SplitOnChar(s, sep, piece, acc) ==
    IF s = <<>> THEN Append(acc, piece)
    ELSE IF Head(s) = sep
         THEN SplitOnChar(Tail(s), sep, <<>>, Append(acc, piece))
         ELSE SplitOnChar(Tail(s), sep, Append(piece, Head(s)), acc)

SplitOn(s, sep) == SplitOnChar(s, sep, <<>>, <<>>)

\* " ".join(parts)
RECURSIVE Join(_)
Join(parts) ==
    IF parts = <<>> THEN <<>>
    ELSE IF Len(parts) = 1 THEN parts[1]
    ELSE parts[1] \o <<" ">> \o Join(Tail(parts))

RECURSIVE Concat(_)
Concat(parts) ==
    IF parts = <<>> THEN <<>> ELSE Head(parts) \o Concat(Tail(parts))

RECURSIVE SumSeq(_)
SumSeq(s) == IF s = <<>> THEN 0 ELSE Head(s) + SumSeq(Tail(s))

(***************************************************************************)
(* The tokenizer adapter.  tiktoken is an external library; it is stood in *)
(* for by a byte-pair-like count: one token per non-whitespace character,  *)
(* whitespace merged into the token that follows it, and a trailing        *)
(* whitespace run counted as one token of its own.                         *)
(***************************************************************************)
CountTokens(s) ==
    Cardinality({i \in 1..Len(s) : s[i] \notin Whitespace})
    + (IF s # <<>> /\ s[Len(s)] \in Whitespace THEN 1 ELSE 0)

(***************************************************************************)
(* DocumentProcessor._split_into_sentences                                 *)
(***************************************************************************)
Terminal == {".", "!", "?"}

\* Mutant: a terminal mark ends a sentence as soon as the stripped buffer
\* is longer than 1.
RECURSIVE ScanCharsShort(_, _, _, _)
ScanCharsShort(t, i, current, acc) ==
    IF i > Len(t) THEN [current |-> current, sentences |-> acc]
    ELSE LET cur == Append(current, t[i])
             stripped == Strip(cur)
         IN  IF t[i] \in Terminal /\ Len(stripped) > 1
             THEN ScanCharsShort(t, i + 1, <<>>, Append(acc, stripped))
             ELSE ScanCharsShort(t, i + 1, cur, acc)

\* The scan "for char in text": current grows by one character; a terminal
\* mark read while the stripped buffer is longer than 2 ends a sentence.
RECURSIVE ScanChars(_, _, _, _)
ScanChars(t, i, current, acc) ==
    IF i > Len(t) THEN [current |-> current, sentences |-> acc]
    ELSE LET cur == Append(current, t[i])
             stripped == Strip(cur)
         IN  IF t[i] \in Terminal /\ Len(stripped) > 0 /\ Len(stripped) > 2
             THEN ScanChars(t, i + 1, <<>>, Append(acc, stripped))
             ELSE ScanChars(t, i + 1, cur, acc)

NonEmptyStripped(parts) ==
    LET stripped == [i \in 1..Len(parts) |-> Strip(parts[i])]
    IN  SelectSeq(stripped, LAMBDA p : p # <<>>)

SplitIntoSentences(raw) ==
    LET t == Join(Split(raw))
        scan == ScanChars(t, 1, <<>>, <<>>)
        scanned == IF Strip(scan.current) # <<>>
                   THEN Append(scan.sentences, Strip(scan.current))
                   ELSE scan.sentences
        found == IF scanned = <<>>
                 THEN NonEmptyStripped(SplitOn(t, "\n"))
                 ELSE scanned
    IN  IF found # <<>> THEN found ELSE <<t>>

(***************************************************************************)
(* DocumentProcessor._chunk_text.  current_chunk holds the positions in    *)
(* the sentence list of the accumulated sentences (the code holds the      *)
(* strings themselves).  An emitted chunk records how it was built: kind   *)
(* "sentences" with the positions of its sentences, or kind "words" with   *)
(* the position of the long sentence and the words taken from it.  The     *)
(* string the code appends to chunks is ChunkString of the record.         *)
(***************************************************************************)
SentenceChunk(cur) == [kind |-> "sentences", src |-> cur, words |-> <<>>]

WordChunk(k, temp_chunk) == [kind |-> "words", src |-> <<k>>, words |-> temp_chunk]

ChunkString(sents, c) ==
    IF c.kind = "sentences"
    THEN Join([i \in 1..Len(c.src) |-> sents[c.src[i]]])
    ELSE Join(c.words)

\* chunks.append(" ".join(current_chunk)) under "if current_chunk:"
Flush(out, cur) == IF cur # <<>> THEN Append(out, SentenceChunk(cur)) ELSE out

\* The loop "for word in words" with the flush of the remaining words.
RECURSIVE WordLoop(_, _, _, _, _, _)
WordLoop(words, k, temp_chunk, temp_tokens, out, size) ==
    IF words = <<>>
    THEN IF temp_chunk # <<>> THEN Append(out, WordChunk(k, temp_chunk)) ELSE out
    ELSE LET word == Head(words)
             word_tokens == CountTokens(word \o <<" ">>)
         IN  IF temp_tokens + word_tokens > size
             THEN WordLoop(Tail(words), k, <<word>>, word_tokens,
                           IF temp_chunk # <<>>
                           THEN Append(out, WordChunk(k, temp_chunk))
                           ELSE out,
                           size)
             ELSE WordLoop(Tail(words), k, Append(temp_chunk, word),
                           temp_tokens + word_tokens, out, size)

\* Mutant: the long sentence joins the accumulation like any other, and
\* the accumulation is not reset.
LongSentenceStepCarries(st, sents, k, size) ==
    [chunks |-> Flush(st.chunks, st.current_chunk),
     current_chunk |-> Append(st.current_chunk, k),
     current_tokens |-> st.current_tokens + CountTokens(sents[k])]

\* The branch "if sentence_tokens > chunk_size".
LongSentenceStep(st, sents, k, size) ==
    [chunks |-> WordLoop(Split(sents[k]), k, <<>>, 0,
                         Flush(st.chunks, st.current_chunk), size),
     current_chunk |-> <<>>,
     current_tokens |-> 0]

\* The loop "for sent in reversed(current_chunk)": walks back from position
\* i of cur while the sentences still fit in the overlap budget.
RECURSIVE OverlapWalk(_, _, _, _, _, _)
OverlapWalk(sents, cur, i, overlap_chunk, overlap_tokens, ov) ==
    IF i = 0 THEN [chunk |-> overlap_chunk, tokens |-> overlap_tokens]
    ELSE LET sent_tokens == CountTokens(sents[cur[i]])
         IN  IF overlap_tokens + sent_tokens <= ov
             THEN OverlapWalk(sents, cur, i - 1, <<cur[i]>> \o overlap_chunk,
                              overlap_tokens + sent_tokens, ov)
             ELSE [chunk |-> overlap_chunk, tokens |-> overlap_tokens]

\* Mutant: the whole previous chunk is carried over, whatever the budget.
OverlapWindowWholeChunk(sents, cur, ov) ==
    [chunk |-> cur,
     tokens |-> SumSeq([i \in 1..Len(cur) |-> CountTokens(sents[cur[i]])])]

\* Mutant: no sentence is carried over.
OverlapWindowEmpty(sents, cur, ov) == [chunk |-> <<>>, tokens |-> 0]

OverlapWindow(sents, cur, ov) == OverlapWalk(sents, cur, Len(cur), <<>>, 0, ov)

\* Mutant: the new chunk is seeded with the overlap window alone and the
\* triggering sentence is lost.
OverflowStepLosesSentence(st, sents, k, ov) ==
    [chunks |-> Flush(st.chunks, st.current_chunk),
     current_chunk |-> OverlapWindow(sents, st.current_chunk, ov).chunk,
     current_tokens |-> OverlapWindow(sents, st.current_chunk, ov).tokens]

\* The branch "if current_tokens + sentence_tokens > chunk_size".
OverflowStep(st, sents, k, ov) ==
    LET sentence_tokens == CountTokens(sents[k])
        w == OverlapWindow(sents, st.current_chunk, ov)
    IN  IF ov > 0 /\ st.current_chunk # <<>>
        THEN [chunks |-> Flush(st.chunks, st.current_chunk),
              current_chunk |-> Append(w.chunk, k),
              current_tokens |-> w.tokens + sentence_tokens]
        ELSE [chunks |-> Flush(st.chunks, st.current_chunk),
              current_chunk |-> <<k>>,
              current_tokens |-> sentence_tokens]

\* The final else branch.
AppendStep(st, sents, k) ==
    [chunks |-> st.chunks,
     current_chunk |-> Append(st.current_chunk, k),
     current_tokens |-> st.current_tokens + CountTokens(sents[k])]

IsLong(sents, k, size) == CountTokens(sents[k]) > size

IsOverflow(st, sents, k, size) ==
    st.current_tokens + CountTokens(sents[k]) > size

\* One iteration of "for sentence in sentences".
SentenceStep(st, sents, k, size, ov) ==
    IF IsLong(sents, k, size) THEN LongSentenceStep(st, sents, k, size)
    ELSE IF IsOverflow(st, sents, k, size) THEN OverflowStep(st, sents, k, ov)
    ELSE AppendStep(st, sents, k)

\* Mutant: the accumulation left after the loop is not emitted.
FinalFlushForgotten(st) == st.chunks

\* "Don't forget the last chunk"
FinalFlush(st) == Flush(st.chunks, st.current_chunk)

RECURSIVE ChunkLoop(_, _, _, _, _)
ChunkLoop(st, sents, k, size, ov) ==
    IF k > Len(sents) THEN FinalFlush(st)
    ELSE ChunkLoop(SentenceStep(st, sents, k, size, ov), sents, k + 1, size, ov)

EmptyChunkState == [chunks |-> <<>>, current_chunk |-> <<>>, current_tokens |-> 0]

\* _chunk_text(text) as a whole: the list of chunk strings it returns.
ChunkStrings(sents, out) == [i \in 1..Len(out) |-> ChunkString(sents, out[i])]

ChunkSentences(sents, size, ov) ==
    ChunkStrings(sents, ChunkLoop(EmptyChunkState, sents, 1, size, ov))

ChunkText(raw, size, ov) == ChunkSentences(SplitIntoSentences(raw), size, ov)

(***************************************************************************)
(* One run of _chunk_text as a state machine: a step splits the text, one  *)
(* step per sentence of the loop, a last step flushes.                     *)
(***************************************************************************)
chunkState == [chunks |-> chunks, current_chunk |-> current_chunk,
               current_tokens |-> current_tokens]

SetChunkState(st) ==
    /\ chunks' = st.chunks
    /\ current_chunk' = st.current_chunk
    /\ current_tokens' = st.current_tokens

\* The chunker at rest, for the specifications that do not run it.
ChunkIdle ==
    /\ text = <<>> /\ chunk_size = 1 /\ overlap = 0
    /\ sentences = <<>> /\ si = 0 /\ chunks = <<>>
    /\ current_chunk = <<>> /\ current_tokens = 0 /\ cpc = "done"

\* The index and the handlers at rest, for the specifications without them.
None == [kind |-> "None"]

NoRequest == [query |-> "", generation_type |-> "None",
              filters |-> None, top_k |-> None]

GenIdle ==
    /\ gpc = "idle"
    /\ request = NoRequest
    /\ query_embedding = None
    /\ search_args = None
    /\ calls = <<>>
    /\ hits = <<>>
    /\ warning = None
    /\ prompt = None
    /\ generated_content = None
    /\ sources = <<>>
    /\ outcome = None

\* No batch embedding call under way.
EmbedIdle == bpc = "idle" /\ batch_texts = <<>> /\ batch_result = None

IngestIdle ==
    /\ index = {} /\ files = <<>> /\ tpc = <<>> /\ results = <<>>
    /\ upload_response = [kind |-> "none"] /\ requests = 0
    /\ next_uuid = 0 /\ delete_response = [kind |-> "none"]

ChunkInit ==
    /\ text \in Texts
    /\ chunk_size \in 1..MaxChunkSize
    /\ overlap \in 0..(chunk_size - 1)
    /\ sentences = <<>>
    /\ si = 0
    /\ chunks = <<>>
    /\ current_chunk = <<>>
    /\ current_tokens = 0
    /\ cpc = "start"

Segment ==
    /\ cpc = "start"
    /\ sentences' = SplitIntoSentences(text)
    /\ si' = 1
    /\ cpc' = "loop"
    /\ UNCHANGED <<text, chunk_size, overlap, chunks, current_chunk, current_tokens>>
    /\ UNCHANGED <<ingestVars, genVars, embedVars>>

LongSentence ==
    /\ cpc = "loop" /\ si <= Len(sentences)
    /\ IsLong(sentences, si, chunk_size)
    /\ SetChunkState(LongSentenceStep(chunkState, sentences, si, chunk_size))
    /\ si' = si + 1
    /\ UNCHANGED <<text, chunk_size, overlap, sentences, cpc>>
    /\ UNCHANGED <<ingestVars, genVars, embedVars>>

Overflow ==
    /\ cpc = "loop" /\ si <= Len(sentences)
    /\ ~IsLong(sentences, si, chunk_size)
    /\ IsOverflow(chunkState, sentences, si, chunk_size)
    /\ SetChunkState(OverflowStep(chunkState, sentences, si, overlap))
    /\ si' = si + 1
    /\ UNCHANGED <<text, chunk_size, overlap, sentences, cpc>>
    /\ UNCHANGED <<ingestVars, genVars, embedVars>>

AppendSentence ==
    /\ cpc = "loop" /\ si <= Len(sentences)
    /\ ~IsLong(sentences, si, chunk_size)
    /\ ~IsOverflow(chunkState, sentences, si, chunk_size)
    /\ SetChunkState(AppendStep(chunkState, sentences, si))
    /\ si' = si + 1
    /\ UNCHANGED <<text, chunk_size, overlap, sentences, cpc>>
    /\ UNCHANGED <<ingestVars, genVars, embedVars>>

LastChunk ==
    /\ cpc = "loop" /\ si > Len(sentences)
    /\ chunks' = FinalFlush(chunkState)
    /\ cpc' = "done"
    /\ UNCHANGED <<text, chunk_size, overlap, sentences, si, current_chunk, current_tokens>>
    /\ UNCHANGED <<ingestVars, genVars, embedVars>>

ChunkNext == Segment \/ LongSentence \/ Overflow \/ AppendSentence \/ LastChunk

ChunkSpecInit == ChunkInit /\ IngestIdle /\ GenIdle /\ EmbedIdle

SpecChunk == ChunkSpecInit /\ [][ChunkNext]_vars

(***************************************************************************)
(* _split_into_sentences alone, on texts with letters, the three terminal  *)
(* marks, spaces and newlines.                                             *)
(***************************************************************************)
SegmentAlphabet == {"a", "b", ".", "!", "?", " ", "\n"}

SegmentTexts == UNION {[1..n -> SegmentAlphabet] : n \in 0..MaxSegLen}

SegmentInit ==
    /\ text \in SegmentTexts
    /\ chunk_size = 1
    /\ overlap = 0
    /\ sentences = <<>>
    /\ si = 0
    /\ chunks = <<>>
    /\ current_chunk = <<>>
    /\ current_tokens = 0
    /\ cpc = "start"
    /\ IngestIdle /\ GenIdle /\ EmbedIdle

SpecSegment == SegmentInit /\ [][Segment]_vars

(***************************************************************************)
(* The loop of _chunk_text under the configured chunk_size and             *)
(* chunk_overlap, on documents of 1200 tokens.  A run starts where         *)
(* _split_into_sentences has returned: the documents are sentences of      *)
(* letters closed by a full stop and separated by one space, which the     *)
(* scan returns one by one.                                                *)
(***************************************************************************)
\* Settings.chunk_size and Settings.chunk_overlap
SettingsChunkSize == 500
SettingsChunkOverlap == 50

\* A sentence of n tokens: n - 1 letters and a full stop.
SentenceOf(n) == [i \in 1..n |-> IF i = n THEN "." ELSE "a"]

\* The lengths of the sentences of a document of the given number of
\* tokens whose sentence lengths repeat the pattern, the last one cut to
\* what is left.
RECURSIVE PatternLengths(_, _, _)
PatternLengths(pattern, k, left) ==
    IF left = 0 THEN <<>>
    ELSE IF pattern[k] < left
    THEN <<pattern[k]>> \o PatternLengths(pattern, (k % Len(pattern)) + 1,
                                          left - pattern[k])
    ELSE <<left>>

SentencePatterns ==
    {<<20>>, <<25>>, <<40>>, <<50>>, <<24, 50>>, <<30, 20, 50>>, <<48, 16, 36>>,
     <<60>>, <<100>>, <<40, 60>>, <<300>>, <<400>>, <<500>>, <<200, 500, 400, 100>>}

SentencesOf(pattern) ==
    LET lengths == PatternLengths(pattern, 1, 1200)
    IN  [i \in 1..Len(lengths) |-> SentenceOf(lengths[i])]

ScenarioInit ==
    /\ \E pattern \in SentencePatterns :
          /\ sentences = SentencesOf(pattern)
          /\ text = Join(sentences)
    /\ chunk_size = SettingsChunkSize
    /\ overlap = SettingsChunkOverlap
    /\ si = 1
    /\ chunks = <<>>
    /\ current_chunk = <<>>
    /\ current_tokens = 0
    /\ cpc = "loop"
    /\ IngestIdle /\ GenIdle /\ EmbedIdle

\* No sentence of these documents exceeds chunk_size.
ScenarioNext == Overflow \/ AppendSentence \/ LastChunk

SpecScenario == ScenarioInit /\ [][ScenarioNext]_vars

(***************************************************************************)
(* The vector index (VectorStoreService).  A point is the payload of one   *)
(* stored chunk; document ids are numbers, 0 standing for the empty string *)
(* the upload route reports for a file that was not stored.                *)
(***************************************************************************)
NoDocumentId == 0
PersistedIds == {1, 2}
FirstUuid == 3
UnknownId == 9

FileNames == {"a.txt", "b.txt", "c.exe"}

\* file_parser.get_file_extension over the file names of the model.
FileExtension(filename) ==
    CASE filename = "a.txt" -> ".txt"
      [] filename = "b.txt" -> ".txt"
      [] filename = "c.exe" -> ".exe"

SUPPORTED_EXTENSIONS == {".txt", ".pdf", ".docx"}

IsSupportedFile(filename) == FileExtension(filename) \in SUPPORTED_EXTENSIONS

\* Mutant: the chunks are numbered from 1.
AddChunksPointsOneBased(document_id, filename, chunk_list, embeddings) ==
    [raised |-> Len(chunk_list) # Len(embeddings),
     points |-> {[document_id |-> document_id,
                  filename |-> filename,
                  chunk_index |-> idx,
                  total_chunks |-> Len(chunk_list),
                  chunk_text |-> chunk_list[idx]] : idx \in 1..Len(chunk_list)}]

\* VectorStoreService.add_chunks: the points it builds, or ValueError.
AddChunksPoints(document_id, filename, chunk_list, embeddings) ==
    IF Len(chunk_list) # Len(embeddings)
    THEN [raised |-> TRUE, points |-> {}]
    ELSE [raised |-> FALSE,
          points |-> {[document_id |-> document_id,
                       filename |-> filename,
                       chunk_index |-> idx - 1,
                       total_chunks |-> Len(chunk_list),
                       chunk_text |-> chunk_list[idx]] : idx \in 1..Len(chunk_list)}]

\* Mutant: the existence check finds nothing.
DocumentExistsNever(idx, filename) == FALSE

\* VectorStoreService.document_exists: a scroll filtered on the filename.
DocumentExists(idx, filename) == \E p \in idx : p.filename = filename

\* VectorStoreService.get_all_documents: the document ids of the points.
GetAllDocuments(idx) == {p.document_id : p \in idx}

\* VectorStoreService.delete_document: delete by filter on document_id.
DeleteDocumentPoints(idx, document_id) ==
    {p \in idx : p.document_id # document_id}

(***************************************************************************)
(* DocumentProcessor.process_document.                                     *)
(*                                                                         *)
(* EmbeddingService.get_embeddings_batch is a coroutine function (async    *)
(* def).  process_document calls it without await, so the call runs none   *)
(* of its body and returns a coroutine object; zip(chunks, embeddings)     *)
(* then raises TypeError, outside the try blocks.  The exception leaves    *)
(* process_document and is reported by process_single_file.                *)
(***************************************************************************)
CoroutineObject == [kind |-> "coroutine", value |-> <<>>]

\* "embeddings = self.embedding_service.get_embeddings_batch(chunks)"
GetEmbeddingsBatchCall(texts) == CoroutineObject

\* "Filter out chunks with None embeddings"
ValidPositions(embeddings) ==
    SelectSeq([i \in 1..Len(embeddings) |-> i], LAMBDA i : embeddings[i] # "None")

FilterValid(chunk_list, embeddings) ==
    LET pos == ValidPositions(embeddings)
    IN  [chunks |-> [i \in 1..Len(pos) |-> chunk_list[pos[i]]],
         embeddings |-> [i \in 1..Len(pos) |-> embeddings[pos[i]]]]

Returned(idx, checked, success, error, document_id, chunks_created) ==
    [raised |-> FALSE, index |-> idx, checked |-> checked, success |-> success,
     error |-> error, document_id |-> document_id, chunks_created |-> chunks_created]

Raised(idx, checked, error) ==
    [raised |-> TRUE, index |-> idx, checked |-> checked, success |-> FALSE,
     error |-> error, document_id |-> NoDocumentId, chunks_created |-> 0]

\* The part of process_document from "Filter out chunks with None
\* embeddings" on, given the list of embeddings.
\* Mutant: a failing write leaves its first point behind.
StoreStageLeavesPoint(idx, filename, chunk_list, embeddings, document_id, upsert_ok) ==
    LET valid == FilterValid(chunk_list, embeddings)
        added == AddChunksPoints(document_id, filename, valid.chunks, valid.embeddings)
    IN  IF valid.chunks = <<>>
        THEN Returned(idx, "absent", FALSE, "No valid embeddings generated",
                      NoDocumentId, 0)
        ELSE IF added.raised \/ ~upsert_ok
        THEN Returned(idx \cup {p \in added.points : p.chunk_index = 0}, "absent", FALSE,
                      "Failed to store in vector database", NoDocumentId, 0)
        ELSE Returned(idx \cup added.points, "absent", TRUE, "", document_id,
                      Cardinality(added.points))

StoreStage(idx, filename, chunk_list, embeddings, document_id, upsert_ok) ==
    LET valid == FilterValid(chunk_list, embeddings)
        added == AddChunksPoints(document_id, filename, valid.chunks, valid.embeddings)
    IN  IF valid.chunks = <<>>
        THEN Returned(idx, "absent", FALSE, "No valid embeddings generated",
                      NoDocumentId, 0)
        ELSE IF added.raised \/ ~upsert_ok
        THEN Returned(idx, "absent", FALSE, "Failed to store in vector database",
                      NoDocumentId, 0)
        ELSE Returned(idx \cup added.points, "absent", TRUE, "", document_id,
                      Cardinality(added.points))

\* scroll_ok and upsert_ok say whether the index collaborator answers the
\* scroll of document_exists and the upsert of add_chunks.
\* The part of process_document from "Generate embeddings for all chunks"
\* on, given what the call of get_embeddings_batch returned.
EmbeddingStage(idx, filename, chunk_list, embeddings, document_id, upsert_ok) ==
    IF embeddings.kind # "list"
    THEN Raised(idx, "absent", "TypeError")
    ELSE StoreStage(idx, filename, chunk_list, embeddings.value, document_id, upsert_ok)

\* The part of process_document from "if not chunks" on.
ChunkStage(idx, filename, chunk_list, document_id, upsert_ok) ==
    IF chunk_list = <<>>
    THEN Returned(idx, "absent", FALSE, "Document produced no valid chunks",
                  NoDocumentId, 0)
    ELSE EmbeddingStage(idx, filename, chunk_list, GetEmbeddingsBatchCall(chunk_list),
                        document_id, upsert_ok)

ProcessDocument(idx, filename, content, document_id, scroll_ok, upsert_ok) ==
    IF ~scroll_ok THEN Raised(idx, "unknown", "index error")
    ELSE IF DocumentExists(idx, filename)
    THEN Returned(idx, "exists", FALSE,
                  "Document '" \o filename \o "' already exists. Delete it first to re-upload.",
                  NoDocumentId, 0)
    ELSE ChunkStage(idx, filename,
                    ChunkText(content, SettingsChunkSize, SettingsChunkOverlap),
                    document_id, upsert_ok)

\* Whether process_document reaches "document_id = str(uuid.uuid4())".
DrawsUuid(idx, filename, scroll_ok) ==
    scroll_ok /\ ~DocumentExists(idx, filename)

(***************************************************************************)
(* The upload route: process_single_file per file, gathered.               *)
(***************************************************************************)
Contents == {<<" ">>, <<"a", "a", ".">>}

UploadedFileInfo(filename, document_id, chunks_created, status, checked) ==
    [filename |-> filename, document_id |-> document_id,
     chunks_created |-> chunks_created, status |-> status, checked |-> checked]

FailedInfo(filename, why, checked) ==
    UploadedFileInfo(filename, NoDocumentId, 0, why, checked)

NoInfo == UploadedFileInfo("", NoDocumentId, 0, "pending", "unknown")

\* process_single_file after file.read() returned: extraction, the empty
\* check and process_document.  io is what reading and extraction did.
\* "Process the document": the UploadedFileInfo for what process_document
\* returned or raised.
ProcessedInfo(filename, r) ==
    [index |-> r.index,
     info |-> IF r.raised
              THEN FailedInfo(filename, "failed: " \o r.error, r.checked)
              ELSE IF r.success
              THEN UploadedFileInfo(filename, r.document_id, r.chunks_created,
                                    "success", r.checked)
              ELSE FailedInfo(filename, "failed: " \o r.error, r.checked)]

ProcessSingleFile(idx, file, io, document_id, scroll_ok, upsert_ok) ==
    IF io = "read_error"
    THEN [index |-> idx,
          info |-> FailedInfo(file.filename, "failed: Could not read file", "unknown")]
    ELSE IF io = "extract_value_error"
    THEN [index |-> idx,
          info |-> FailedInfo(file.filename, "failed: ValueError", "unknown")]
    ELSE IF io = "extract_error"
    THEN [index |-> idx,
          info |-> FailedInfo(file.filename, "failed: Could not extract text", "unknown")]
    ELSE IF Strip(file.content) = <<>>
    THEN [index |-> idx,
          info |-> FailedInfo(file.filename, "failed: No text content found in file",
                              "unknown")]
    ELSE ProcessedInfo(file.filename,
                       ProcessDocument(idx, file.filename, file.content, document_id,
                                       scroll_ok, upsert_ok))

\* What the collection holds when the service is constructed: the store is
\* persistent, and its points are those add_chunks wrote for documents
\* ingested one at a time: pieces[i] is the embedding of the i-th chunk of
\* the document, "None" for a chunk dropped before storage.
PieceText(i) == [j \in 1..i |-> "a"]

PieceLists ==
    {e \in UNION {[1..n -> {"vec", "None"}] : n \in 1..MaxPieces} :
        \E i \in 1..Len(e) : e[i] = "vec"}

StoredPoints(document_id, filename, pieces) ==
    StoreStage({}, filename, [i \in 1..Len(pieces) |-> PieceText(i)], pieces,
               document_id, TRUE).index

Injective(f) == \A x, y \in DOMAIN f : x # y => f[x] # f[y]

PersistedNames(D) ==
    {g \in [D -> {n \in FileNames : IsSupportedFile(n)}] : Injective(g)}

PersistedIndexes ==
    UNION {{UNION {StoredPoints(d, fn[d], emb[d]) : d \in D} :
               fn \in PersistedNames(D), emb \in [D -> PieceLists]} :
           D \in SUBSET PersistedIds}

IngestInit ==
    /\ index \in PersistedIndexes
    /\ files = <<>>
    /\ tpc = <<>>
    /\ results = <<>>
    /\ upload_response = [kind |-> "none"]
    /\ requests = 0
    /\ next_uuid = FirstUuid
    /\ delete_response = [kind |-> "none"]

UploadIdle == files = <<>> \/ upload_response.kind = "response"

\* upload_documents up to asyncio.gather: every task runs to its first
\* await (file.read()), a file of unsupported type returning at once.
SubmitUpload ==
    /\ UploadIdle
    /\ requests < MaxRequests
    /\ \E n \in 1..MaxFiles :
         \E fs \in [1..n -> [filename : FileNames, content : Contents]] :
            /\ files' = fs
            /\ tpc' = [i \in 1..n |->
                          IF IsSupportedFile(fs[i].filename) THEN "reading" ELSE "done"]
            /\ results' = [i \in 1..n |->
                          IF IsSupportedFile(fs[i].filename) THEN NoInfo
                          ELSE FailedInfo(fs[i].filename,
                                          "failed: Unsupported file type", "unknown")]
    /\ upload_response' = [kind |-> "none"]
    /\ requests' = requests + 1
    /\ UNCHANGED <<index, next_uuid, delete_response>>
    /\ UNCHANGED <<chunkVars, genVars, embedVars>>

\* Mutant: the results are collected in the order the tasks return.
TaskReturnsInCompletionOrder(i, out) ==
    /\ index' = out.index
    /\ results' = [results EXCEPT
                      ![Cardinality({j \in 1..Len(tpc) : tpc[j] = "done"}) + 1] = out.info]

\* The task of file i returns: its effect on the index, its result.
TaskReturns(i, out) ==
    /\ index' = out.index
    /\ results' = [results EXCEPT ![i] = out.info]

\* The task of file i resumes after file.read() and runs to its return:
\* process_document holds no await, so nothing interleaves with it.
FinishFile(i) ==
    /\ i \in 1..Len(files)
    /\ tpc[i] = "reading"
    /\ \E io \in {"ok", "read_error", "extract_value_error", "extract_error"},
          scroll_ok, upsert_ok \in BOOLEAN :
         /\ TaskReturns(i, ProcessSingleFile(index, files[i], io, next_uuid,
                                             scroll_ok, upsert_ok))
         /\ next_uuid' = IF /\ io = "ok"
                            /\ Strip(files[i].content) # <<>>
                            /\ DrawsUuid(index, files[i].filename, scroll_ok)
                         THEN next_uuid + 1 ELSE next_uuid
    /\ tpc' = [tpc EXCEPT ![i] = "done"]
    /\ UNCHANGED <<files, upload_response, requests, delete_response>>
    /\ UNCHANGED <<chunkVars, genVars, embedVars>>

\* upload_documents after asyncio.gather: the counts and the response.
Respond ==
    /\ files # <<>>
    /\ upload_response.kind = "none"
    /\ \A i \in 1..Len(files) : tpc[i] = "done"
    /\ LET successful == Cardinality({i \in 1..Len(results) : results[i].status = "success"})
           failed == Len(results) - successful
       IN  upload_response' = [kind |-> "response",
                               message |-> IF failed = 0 THEN "Successfully uploaded"
                                           ELSE IF successful = 0 THEN "Failed to upload all"
                                           ELSE "Uploaded, some failed",
                               total_files |-> Len(files),
                               successful_uploads |-> successful,
                               failed_uploads |-> failed,
                               files |-> results]
    /\ UNCHANGED <<index, files, tpc, results, requests, next_uuid, delete_response>>
    /\ UNCHANGED <<chunkVars, genVars, embedVars>>

\* The delete route: 404 for an id with no point, else delete by filter.
DeleteDocument(document_id) ==
    /\ \E delete_ok \in BOOLEAN :
         IF document_id \notin GetAllDocuments(index)
         THEN /\ delete_response' = [kind |-> "404", document_id |-> document_id]
              /\ index' = index
         ELSE IF delete_ok
         THEN /\ delete_response' = [kind |-> "deleted", document_id |-> document_id]
              /\ index' = DeleteDocumentPoints(index, document_id)
         ELSE /\ delete_response' = [kind |-> "500", document_id |-> document_id]
              /\ index' = index
    /\ UNCHANGED <<files, tpc, results, upload_response, requests, next_uuid>>
    /\ UNCHANGED <<chunkVars, genVars, embedVars>>

\* The ids a client asks to delete: one of a stored document, or one that
\* no point carries (every such id is answered alike).
DeletableIds == GetAllDocuments(index) \cup {UnknownId}

IngestNext ==
    \/ SubmitUpload
    \/ \E i \in 1..MaxFiles : FinishFile(i)
    \/ Respond
    \/ \E d \in DeletableIds : DeleteDocument(d)

IngestSpecInit == IngestInit /\ ChunkIdle /\ GenIdle /\ EmbedIdle

SpecIngest == IngestSpecInit /\ [][IngestNext]_vars

(***************************************************************************)
(* Generation: LLMService.generate behind the generate route.              *)
(*                                                                         *)
(* Optional values are records: None, or a record of another kind.         *)
(***************************************************************************)
\* Settings.top_k and Settings.similarity_threshold (0.3)
SettingsTopK == 5
SimilarityThreshold == 30000

\* The similarity scores the index collaborator reports.
Scores == {20000, 30000, 39999, 40000, 50000, 59999, 60000, 79999, 80000, 90000}

IntValue(n) == [kind |-> "int", value |-> n]
List(l) == [kind |-> "list", value |-> l]
Str(t) == [kind |-> "str", value |-> t]

\* Python truth of an Optional[list]: neither None nor empty.
\* Mutant: a list counts as given even when it is empty.
TruthyWhenNotNone(o) == o.kind = "list"

Truthy(o) == o.kind = "list" /\ o.value # <<>>

\* "top_k = request.top_k or self.settings.top_k"
TopK(req) ==
    IF req.top_k.kind = "int" /\ req.top_k.value # 0
    THEN req.top_k.value ELSE SettingsTopK

\* "document_ids = None; filenames = None; if request.filters: ..."
FilterDocumentIds(req) ==
    IF req.filters.kind = "filters" THEN req.filters.document_ids ELSE None

FilterFilenames(req) ==
    IF req.filters.kind = "filters" THEN req.filters.filenames ELSE None

\* "query_embedding = self.embedding_service.get_embedding(request.query)":
\* get_embedding is a coroutine function and the call is not awaited.
GetEmbeddingCall(query) == CoroutineObject

\* The text match of the index collaborator on filenames, over the names
\* and the filter texts of the model.
MatchText(filename, fname) ==
    \/ fname = filename
    \/ fname = "a." /\ filename = "a.txt"
    \/ fname = "txt" /\ filename \in {"a.txt", "b.txt"}

\* VectorStoreService.search, "Build filter conditions": a MatchAny
\* condition on document_id, a "should" of MatchText conditions on filename.
FilterConditions(document_ids, filenames) ==
    (IF Truthy(document_ids)
     THEN <<[key |-> "document_id", match |-> "any", values |-> document_ids.value]>>
     ELSE <<>>)
    \o (IF Truthy(filenames)
        THEN <<[key |-> "filename", match |-> "should text", values |-> filenames.value]>>
        ELSE <<>>)

\* "Construct the final filter": None when there is no condition.
MustFilter(conditions) ==
    IF conditions = <<>> THEN None ELSE [kind |-> "filter", must |-> conditions]

QueryFilter(document_ids, filenames) ==
    MustFilter(FilterConditions(document_ids, filenames))

\* The index collaborator's reading of one condition.
ConditionHolds(p, c) ==
    IF c.match = "any"
    THEN \E i \in 1..Len(c.values) : c.values[i] = p.document_id
    ELSE \E i \in 1..Len(c.values) : MatchText(p.filename, c.values[i])

\* Mutant: one condition of the filter is enough.
FilterAcceptsAny(p, query_filter) ==
    query_filter.kind = "filter" =>
        \E i \in 1..Len(query_filter.must) : ConditionHolds(p, query_filter.must[i])

\* The index collaborator's reading of query_filter: no filter accepts
\* every point, a filter the points on which every "must" condition holds.
FilterAccepts(p, query_filter) ==
    query_filter.kind = "filter" =>
        \A i \in 1..Len(query_filter.must) : ConditionHolds(p, query_filter.must[i])

PassesFilter(p, document_ids, filenames) ==
    FilterAccepts(p, QueryFilter(document_ids, filenames))

\* VectorStoreService.search, "Format results": the dict of one hit.
FormatResult(p, score) ==
    [document_id |-> p.document_id, filename |-> p.filename,
     chunk_index |-> p.chunk_index, total_chunks |-> p.total_chunks,
     chunk_text |-> p.chunk_text, score |-> score]

\* What client.search may return for a scoring of the points: the points
\* that pass the filter and reach the threshold, best first, at most limit.
SearchResults(idx, limit, score_threshold, document_ids, filenames, scoring) ==
    LET eligible == {p \in idx : /\ PassesFilter(p, document_ids, filenames)
                                 /\ scoring[p] >= score_threshold}
        n == IF Cardinality(eligible) < limit THEN Cardinality(eligible) ELSE limit
    IN  {[i \in 1..n |-> FormatResult(h[i], scoring[h[i]])] :
            h \in {g \in [1..n -> eligible] :
                     /\ \A i, j \in 1..n : i < j =>
                           g[i] # g[j] /\ scoring[g[i]] >= scoring[g[j]]
                     /\ \A q \in eligible :
                           (\A i \in 1..n : g[i] # q) =>
                              \A i \in 1..n : scoring[q] <= scoring[g[i]]}}

\* The keyword arguments of client.search in VectorStoreService.search, as
\* LLMService.generate calls it.
SearchArgs(req) ==
    [kind |-> "search", limit |-> TopK(req), score_threshold |-> SimilarityThreshold,
     query_filter |-> QueryFilter(FilterDocumentIds(req), FilterFilenames(req))]

\* "Check if sources are weak": avg_score < 0.4, on the sum.
SumScores(chunk_list) == SumSeq([i \in 1..Len(chunk_list) |-> chunk_list[i].score])

LowRelevance(chunk_list) == SumScores(chunk_list) < 40000 * Len(chunk_list)

NoSourcesWarning ==
    Str("No relevant source documents found. Cannot generate grounded content.")

LowRelevanceWarning(chunk_list) ==
    [kind |-> "str", value |-> "Source documents have low relevance",
     sum |-> SumScores(chunk_list), count |-> Len(chunk_list)]

WarningFor(chunk_list) ==
    IF LowRelevance(chunk_list) THEN LowRelevanceWarning(chunk_list) ELSE None

Refusal ==
    Str("I cannot generate this content because no relevant source documents were found in the knowledge base. Please ensure relevant documents have been uploaded, or try rephrasing your query.")

\* The context string as a sequence of pieces: the label "[Source i:
\* filename]" with its newline, the chunk text with its newline, and the
\* separator "\n---\n".
LabelPiece(i, filename) == [t |-> "label", rank |-> i, filename |-> filename, text |-> <<>>]

TextPiece(chunk_text) == [t |-> "text", rank |-> 0, filename |-> "", text |-> chunk_text]

SeparatorPiece == [t |-> "separator", rank |-> 0, filename |-> "", text |-> <<>>]

\* f"[Source {i}: {chunk['filename']}]\n{chunk['chunk_text']}\n"
ContextPart(i, chunk) == <<LabelPiece(i, chunk.filename), TextPiece(chunk.chunk_text)>>

\* sep.join(parts)
RECURSIVE JoinParts(_, _)
JoinParts(parts, sep) ==
    IF parts = <<>> THEN <<>>
    ELSE IF Len(parts) = 1 THEN parts[1]
    ELSE parts[1] \o sep \o JoinParts(Tail(parts), sep)

\* Mutant: enumerate(chunks) without its start, the blocks numbered from 0.
BuildContextFromZero(chunk_list) ==
    JoinParts([i \in 1..Len(chunk_list) |-> ContextPart(i - 1, chunk_list[i])],
              <<SeparatorPiece>>)

\* LLMService._build_context: one part per chunk, numbered from 1, joined.
BuildContext(chunk_list) ==
    JoinParts([i \in 1..Len(chunk_list) |-> ContextPart(i, chunk_list[i])],
              <<SeparatorPiece>>)

GENERATION_PROMPTS == {"faq", "summary", "blog", "report", "general"}

\* "generation_type = request.generation_type or 'general'" and
\* GENERATION_PROMPTS.get(generation_type, GENERATION_PROMPTS["general"])
SystemPrompt(req) ==
    IF req.generation_type \in GENERATION_PROMPTS THEN req.generation_type ELSE "general"

Messages(req, chunk_list) ==
    [kind |-> "messages", system |-> SystemPrompt(req), query |-> req.query,
     context |-> BuildContext(chunk_list)]

\* Mutant: the lower bounds of the buckets are exclusive.
RelevanceBucketStrict(score) ==
    IF score > 80000 THEN "Very high"
    ELSE IF score > 60000 THEN "High"
    ELSE IF score > 40000 THEN "Moderate"
    ELSE "Lower"

\* LLMService._create_source_documents, "Create human-readable reason"
RelevanceBucket(score) ==
    IF score >= 80000 THEN "Very high"
    ELSE IF score >= 60000 THEN "High"
    ELSE IF score >= 40000 THEN "Moderate"
    ELSE "Lower"

\* Rounding to the nearest multiple of unit, ties to the even multiple.
RoundHalfEven(n, unit) ==
    LET q == n \div unit
        r == n % unit
    IN  IF 2 * r > unit \/ (2 * r = unit /\ q % 2 = 1) THEN (q + 1) * unit ELSE q * unit

\* "{score:.0%}"
Percent(score) == RoundHalfEven(score, 1000) \div 1000

\* "round(score, 4)"
Round4(score) == RoundHalfEven(score, 10)

Reason(score) == [bucket |-> RelevanceBucket(score), percent |-> Percent(score)]

\* "Truncate excerpt if too long"
\* Mutant: the cut keeps 500 characters before the dots.
ExcerptCutAt500(chunk_text) ==
    IF Len(chunk_text) > 500
    THEN SubSeq(chunk_text, 1, 500) \o <<".", ".", ".">>
    ELSE chunk_text

Excerpt(chunk_text) ==
    IF Len(chunk_text) > 500
    THEN SubSeq(chunk_text, 1, 497) \o <<".", ".", ".">>
    ELSE chunk_text

SourceDocument(chunk) ==
    [document_id |-> chunk.document_id, filename |-> chunk.filename,
     relevance_score |-> Round4(chunk.score), excerpt |-> Excerpt(chunk.chunk_text),
     chunk_index |-> chunk.chunk_index, reason |-> Reason(chunk.score)]

\* Mutant: the sources are listed from the last hit to the first.
CreateSourceDocumentsReversed(chunk_list) ==
    [i \in 1..Len(chunk_list) |-> SourceDocument(chunk_list[Len(chunk_list) + 1 - i])]

CreateSourceDocuments(chunk_list) ==
    [i \in 1..Len(chunk_list) |-> SourceDocument(chunk_list[i])]

\* GenerateResponse(...): generated_content, sources and metadata are
\* required fields; a keyword the model does not declare is ignored.
GenerateResponse(kwargs) ==
    IF {"generated_content", "sources", "metadata"} \subseteq DOMAIN kwargs
    THEN [raised |-> FALSE,
          value |-> [generated_content |-> kwargs.generated_content,
                     sources |-> kwargs.sources,
                     metadata |-> kwargs.metadata,
                     warning |-> kwargs.warning]]
    ELSE [raised |-> TRUE, value |-> None]

\* The route: the response, 400 for a ValueError (pydantic's ValidationError
\* is one), 500 for any other exception.
Answer(constructed) ==
    IF constructed.raised
    THEN [kind |-> "http400", detail |-> "ValidationError"]
    ELSE [kind |-> "response", body |-> constructed.value]

\* What a collaborator (index search, completion model) may raise: the code
\* decides neither the type nor the message.
CollaboratorExceptions ==
    [type : {"ValueError", "Exception"}, message : {"Connection error."}]

\* The route's except clauses: 400 with str(e) for a ValueError, 500 with
\* "Generation failed: " and str(e) for any other exception.
GenerationFailed(e) ==
    IF e.type = "ValueError"
    THEN [kind |-> "http400", detail |-> e.message]
    ELSE [kind |-> "http500", detail |-> "Generation failed: " \o e.message]

\* The response generate builds when no chunk was retrieved.
NoSourcesResponse ==
    GenerateResponse([generated_content |-> Refusal, sources |-> <<>>,
                      db_search_time |-> 0, warning |-> NoSourcesWarning])

\* The response generate builds after the completion.
FinalResponse(content, source_list, warn) ==
    GenerateResponse([generated_content |-> content, sources |-> source_list,
                      db_search_time |-> 0, warning |-> warn])

OptionalIdLists == {None, List(<<>>), List(<<1>>), List(<<2, UnknownId>>)}
OptionalNameLists == {None, List(<<>>), List(<<"a.">>)}

Requests ==
    [query : {"q"},
     generation_type : {"faq", "None"},
     filters : {None} \cup [kind : {"filters"}, document_ids : OptionalIdLists,
                            filenames : OptionalNameLists],
     top_k : {None} \cup {IntValue(k) : k \in 0..MaxTopK}]

\* The collections a generation request runs against.
GenIndexes ==
    {{}, StoredPoints(1, "a.txt", <<"vec", "vec">>)
            \cup StoredPoints(2, "b.txt", <<"None", "vec">>)}

GenInit ==
    /\ GenIdle
    /\ index \in GenIndexes
    /\ files = <<>>
    /\ tpc = <<>>
    /\ results = <<>>
    /\ upload_response = [kind |-> "none"]
    /\ requests = 0
    /\ next_uuid = FirstUuid
    /\ delete_response = [kind |-> "none"]

\* A request reaches the route and generate is entered.
G_Request ==
    /\ gpc = "idle"
    /\ \E req \in Requests : request' = req
    /\ gpc' = "received"
    /\ UNCHANGED <<query_embedding, search_args, calls, hits, warning, prompt,
                   generated_content, sources, outcome>>
    /\ UNCHANGED <<chunkVars, ingestVars, embedVars>>

\* "Generate query embedding": no collaborator is invoked.
G_Embed ==
    /\ gpc = "received"
    /\ query_embedding' = GetEmbeddingCall(request.query)
    /\ search_args' = search_args
    /\ gpc' = "embedded"
    /\ UNCHANGED <<request, calls, hits, warning, prompt, generated_content,
                   sources, outcome>>
    /\ UNCHANGED <<chunkVars, ingestVars, embedVars>>

\* Mutant: after the search raised, generate goes on to the completion.
G_SearchRaisesAndGoesOn ==
    /\ gpc = "embedded"
    /\ calls' = Append(calls, "search")
    /\ search_args' = SearchArgs(request)
    /\ \E e \in CollaboratorExceptions : outcome' = GenerationFailed(e)
    /\ gpc' = "searched"
    /\ UNCHANGED <<request, query_embedding, hits, warning, prompt,
                   generated_content, sources>>
    /\ UNCHANGED <<chunkVars, ingestVars, embedVars>>

\* vector_store.search raises: the exception leaves generate, the route
\* answers with the error.
G_SearchRaises ==
    /\ gpc = "embedded"
    /\ calls' = Append(calls, "search")
    /\ search_args' = SearchArgs(request)
    /\ \E e \in CollaboratorExceptions : outcome' = GenerationFailed(e)
    /\ gpc' = "done"
    /\ UNCHANGED <<request, query_embedding, hits, warning, prompt,
                   generated_content, sources>>
    /\ UNCHANGED <<chunkVars, ingestVars, embedVars>>

\* vector_store.search returns; "Handle case with no or weak sources",
\* the warning and the prompt.
G_Search ==
    /\ gpc = "embedded"
    /\ calls' = Append(calls, "search")
    /\ search_args' = SearchArgs(request)
    /\ \E scoring \in [index -> Scores] :
         \E found \in SearchResults(index, TopK(request), SimilarityThreshold,
                                    FilterDocumentIds(request),
                                    FilterFilenames(request), scoring) :
            /\ hits' = found
            /\ IF found = <<>>
               THEN /\ warning' = NoSourcesWarning
                    /\ outcome' = Answer(NoSourcesResponse)
                    /\ prompt' = prompt
                    /\ gpc' = "done"
               ELSE /\ warning' = WarningFor(found)
                    /\ outcome' = outcome
                    /\ prompt' = Messages(request, found)
                    /\ gpc' = "searched"
    /\ UNCHANGED <<request, query_embedding, generated_content, sources>>
    /\ UNCHANGED <<chunkVars, ingestVars, embedVars>>

\* "Call LLM": the completion returns a text, or raises.
G_Complete ==
    /\ gpc = "searched"
    /\ calls' = Append(calls, "completion")
    /\ \/ /\ generated_content' = Str("generated")
          /\ outcome' = outcome
          /\ gpc' = "completed"
       \/ /\ generated_content' = generated_content
          /\ \E e \in CollaboratorExceptions : outcome' = GenerationFailed(e)
          /\ gpc' = "done"
    /\ UNCHANGED <<request, query_embedding, search_args, hits, warning, prompt,
                   sources>>
    /\ UNCHANGED <<chunkVars, ingestVars, embedVars>>

\* "Create source documents"
G_Attribute ==
    /\ gpc = "completed"
    /\ sources' = CreateSourceDocuments(hits)
    /\ gpc' = "attributed"
    /\ UNCHANGED <<request, query_embedding, search_args, calls, hits, warning, prompt,
                   generated_content, outcome>>
    /\ UNCHANGED <<chunkVars, ingestVars, embedVars>>

\* Mutant: the answer is given and generate stays where it was.
G_RespondAndStay ==
    /\ gpc = "attributed"
    /\ outcome' = Answer(FinalResponse(generated_content, sources, warning))
    /\ gpc' = "attributed"
    /\ UNCHANGED <<request, query_embedding, search_args, calls, hits, warning, prompt,
                   generated_content, sources>>
    /\ UNCHANGED <<chunkVars, ingestVars, embedVars>>

\* "return GenerateResponse(...)" and the route's answer.
G_Respond ==
    /\ gpc = "attributed"
    /\ outcome' = Answer(FinalResponse(generated_content, sources, warning))
    /\ gpc' = "done"
    /\ UNCHANGED <<request, query_embedding, search_args, calls, hits, warning, prompt,
                   generated_content, sources>>
    /\ UNCHANGED <<chunkVars, ingestVars, embedVars>>

\* The answer is sent; the locals of the request are gone.
G_Return ==
    /\ gpc = "done"
    /\ gpc' = "idle"
    /\ request' = NoRequest
    /\ query_embedding' = None
    /\ search_args' = None
    /\ calls' = <<>>
    /\ hits' = <<>>
    /\ warning' = None
    /\ prompt' = None
    /\ generated_content' = None
    /\ sources' = <<>>
    /\ outcome' = None
    /\ UNCHANGED <<chunkVars, ingestVars, embedVars>>

GenNext ==
    \/ G_Request
    \/ G_Embed
    \/ G_SearchRaises
    \/ G_Search
    \/ G_Complete
    \/ G_Attribute
    \/ G_Respond
    \/ G_Return

\* Chunk texts long enough to be cut in an excerpt: n characters, the i-th
\* of them telling i.
Digits == <<"0", "1", "2", "3", "4", "5", "6", "7", "8", "9">>

LongText(n) == [i \in 1..n |-> Digits[(i % 10) + 1]]

LongTextLengths == {<<400, 497>>, <<499, 500>>, <<501, 600>>}

\* A collection whose document has two chunks of such lengths.
LongIndexes ==
    {AddChunksPoints(1, "a.txt", <<LongText(ns[1]), LongText(ns[2])>>,
                     <<"vec", "vec">>).points : ns \in LongTextLengths}

AttrSpecInit ==
    /\ GenIdle
    /\ index \in LongIndexes
    /\ files = <<>>
    /\ tpc = <<>>
    /\ results = <<>>
    /\ upload_response = [kind |-> "none"]
    /\ requests = 0
    /\ next_uuid = FirstUuid
    /\ delete_response = [kind |-> "none"]
    /\ ChunkIdle
    /\ EmbedIdle

\* Generation requests against a collection of long chunks.
SpecAttr == AttrSpecInit /\ [][GenNext]_vars

GenSpecInit == GenInit /\ ChunkIdle /\ EmbedIdle

SpecGen == GenSpecInit /\ [][GenNext]_vars

\* generate has no loop and no wait of its own: once entered it runs from
\* stage to stage, and a collaborator that is called returns or raises.
GenFairness ==
    /\ WF_vars(G_Embed)
    /\ WF_vars(G_SearchRaises \/ G_Search)
    /\ WF_vars(G_Complete)
    /\ WF_vars(G_Attribute)
    /\ WF_vars(G_Respond)

\* The collections of the runs checked for termination: empty, or one
\* document of two chunks.
FairIndexes == {{}, StoredPoints(1, "a.txt", <<"vec", "vec">>)}

GenFairInit ==
    /\ GenIdle
    /\ index \in FairIndexes
    /\ files = <<>>
    /\ tpc = <<>>
    /\ results = <<>>
    /\ upload_response = [kind |-> "none"]
    /\ requests = 0
    /\ next_uuid = FirstUuid
    /\ delete_response = [kind |-> "none"]
    /\ ChunkIdle
    /\ EmbedIdle

SpecGenFair == GenFairInit /\ [][GenNext]_vars /\ GenFairness

(***************************************************************************)
(* EmbeddingService.get_embeddings_batch.                                  *)
(***************************************************************************)
\* The texts of a batch: empty, blank, and with something to embed.
BatchTexts == {<<>>, <<" ">>, <<"\n">>, <<"a">>, <<" ", "b">>}

TextLists == UNION {[1..n -> BatchTexts] : n \in 0..MaxTexts}

\* t.replace("\n", " ")
ReplaceNewlines(t) == [i \in 1..Len(t) |-> IF t[i] = "\n" THEN " " ELSE t[i]]

\* cleaned_texts
CleanedTexts(texts) == [i \in 1..Len(texts) |-> Strip(ReplaceNewlines(texts[i]))]

\* non_empty_indices: the positions of the non-empty cleaned texts, in
\* order (counted from 1 here).
NonEmptyIndices(cleaned_texts) ==
    LET Truthy_(i) == cleaned_texts[i] # <<>>
    IN  SelectSeq([i \in 1..Len(cleaned_texts) |-> i], Truthy_)

\* non_empty_texts
NonEmptyTexts(cleaned_texts) ==
    LET non_empty_indices == NonEmptyIndices(cleaned_texts)
    IN  [k \in 1..Len(non_empty_indices) |-> cleaned_texts[non_empty_indices[k]]]

\* The embedding vector the model computes for a text.
EmbeddingOf(t) == [kind |-> "vector", of |-> t]

\* client.embeddings.create answering: response.data, one item per input
\* text, in the order of the input.
EmbeddingsCreate(input) ==
    [k \in 1..Len(input) |-> [index |-> k - 1, embedding |-> EmbeddingOf(input[k])]]

\* "Map embeddings back to original indices"
MapBack(n, non_empty_indices, data) ==
    LET m == IF Len(non_empty_indices) < Len(data)
             THEN Len(non_empty_indices) ELSE Len(data)
    IN  [i \in 1..n |->
            IF \E k \in 1..m : non_empty_indices[k] = i
            THEN data[CHOOSE k \in 1..m : non_empty_indices[k] = i].embedding
            ELSE None]

\* What get_embeddings_batch returns once the API answered with data.
GetEmbeddingsBatch(texts, data) ==
    List(MapBack(Len(texts), NonEmptyIndices(CleanedTexts(texts)), data))

BatchRaised(type, message) == [kind |-> "raised", type |-> type, message |-> message]

\* get_embeddings_batch is called and runs to the API call, or raises
\* before it.
B_Call ==
    /\ bpc = "idle"
    /\ \E texts \in TextLists :
         /\ batch_texts' = texts
         /\ IF NonEmptyTexts(CleanedTexts(texts)) = <<>>
            THEN /\ batch_result' = BatchRaised("ValueError", "All texts are empty")
                 /\ bpc' = "done"
            ELSE /\ batch_result' = None
                 /\ bpc' = "awaiting"
    /\ UNCHANGED <<chunkVars, ingestVars, genVars>>

\* The API answers: the embeddings are put at their positions and returned.
B_Response ==
    /\ bpc = "awaiting"
    /\ batch_result' = GetEmbeddingsBatch(
                           batch_texts,
                           EmbeddingsCreate(NonEmptyTexts(CleanedTexts(batch_texts))))
    /\ bpc' = "done"
    /\ UNCHANGED batch_texts
    /\ UNCHANGED <<chunkVars, ingestVars, genVars>>

\* The API call raises, and so does get_embeddings_batch.
B_ApiError ==
    /\ bpc = "awaiting"
    /\ batch_result' = BatchRaised("APIError", "Connection error.")
    /\ bpc' = "done"
    /\ UNCHANGED batch_texts
    /\ UNCHANGED <<chunkVars, ingestVars, genVars>>

\* The caller has the result; the call is over.
B_Done ==
    /\ bpc = "done"
    /\ bpc' = "idle"
    /\ batch_texts' = <<>>
    /\ batch_result' = None
    /\ UNCHANGED <<chunkVars, ingestVars, genVars>>

EmbedNext == B_Call \/ B_Response \/ B_ApiError \/ B_Done

EmbedSpecInit == EmbedIdle /\ ChunkIdle /\ IngestIdle /\ GenIdle

SpecEmbed == EmbedSpecInit /\ [][EmbedNext]_vars

(***************************************************************************)
(* Properties of the chunker.                                              *)
(***************************************************************************)
Range(f) == {f[i] : i \in DOMAIN f}

HasNonWhitespace(s) == \E i \in 1..Len(s) : s[i] \notin Whitespace

\* The token count of an emitted chunk: the sum of the counts the code took
\* of its sentences, or of its words.
ChunkTokens(c) ==
    IF c.kind = "sentences"
    THEN SumSeq([i \in 1..Len(c.src) |-> CountTokens(sentences[c.src[i]])])
    ELSE SumSeq([i \in 1..Len(c.words) |-> CountTokens(c.words[i] \o <<" ">>)])

SingleOversizedWord(c) ==
    /\ c.kind = "words"
    /\ Len(c.words) = 1
    /\ CountTokens(c.words[1] \o <<" ">>) > chunk_size

\* C2: no emitted chunk has a token count above chunk_size, except a chunk
\* made of one single word that alone exceeds chunk_size; chunks started
\* with an overlap window and the triggering sentence are included.
C2_ChunkWithinBudget ==
    \A i \in 1..Len(chunks) :
        ChunkTokens(chunks[i]) <= chunk_size \/ SingleOversizedWord(chunks[i])

\* The chunks that hold sentence k whole, and the words emitted for it.
ChunksHolding(k) ==
    {i \in 1..Len(chunks) : chunks[i].kind = "sentences" /\ k \in Range(chunks[i].src)}

WordChunksOf(k) ==
    SelectSeq(chunks, LAMBDA c : c.kind = "words" /\ c.src = <<k>>)

WordsEmittedFor(k) ==
    LET wc == WordChunksOf(k)
    IN  Concat([i \in 1..Len(wc) |-> wc[i].words])

Appears(k) ==
    \/ ChunksHolding(k) # {}
    \/ /\ WordChunksOf(k) # <<>>
       /\ WordsEmittedFor(k) = Split(sentences[k])

Min(S) == CHOOSE x \in S : \A y \in S : x <= y

FirstAppearance(k) ==
    Min({i \in 1..Len(chunks) : k \in Range(chunks[i].src)})

Increasing(s) == \A i, j \in 1..Len(s) : i < j => s[i] < s[j]

\* C3: when the chunker returns, every sentence of the segmenter appears in
\* an emitted chunk (whole, or as its complete ordered word sequence), and
\* first appearances follow the order of the sentences: across chunks, and
\* inside each chunk.
C3_EverySentenceCovered ==
    cpc = "done" =>
        /\ \A k \in 1..Len(sentences) : Appears(k)
        /\ \A k \in 1..(Len(sentences) - 1) :
               FirstAppearance(k) <= FirstAppearance(k + 1)
        /\ \A i \in 1..Len(chunks) : Increasing(chunks[i].src)

\* C3 witness: a finished run with a long sentence spread over two word
\* chunks between two sentences emitted whole.
C3_Witness ==
    /\ cpc = "done"
    /\ \E k \in 2..(Len(sentences) - 1) :
          /\ Len(WordChunksOf(k)) >= 2
          /\ ChunksHolding(k - 1) # {}
          /\ ChunksHolding(k + 1) # {}

\* C4: on a text with a non-whitespace character the segmenter returns at
\* least one sentence and none empty, and the chunker returns at least one
\* chunk, none the empty string.
C4_NonEmptyChunks ==
    HasNonWhitespace(text) =>
        /\ cpc # "start" =>
              /\ Len(sentences) >= 1
              /\ \A k \in 1..Len(sentences) : sentences[k] # <<>>
        /\ cpc = "done" =>
              /\ Len(chunks) >= 1
              /\ \A i \in 1..Len(chunks) : ChunkString(sentences, chunks[i]) # <<>>

C4_Witness ==
    /\ HasNonWhitespace(text)
    /\ cpc = "done"
    /\ Len(chunks) >= 3

Suffix(s, n) == SubSeq(s, Len(s) - n + 1, Len(s))

TokensOf(cur) == SumSeq([i \in 1..Len(cur) |-> CountTokens(sentences[cur[i]])])

StartsChunkByOverflow ==
    /\ cpc = "loop" /\ si <= Len(sentences)
    /\ ~IsLong(sentences, si, chunk_size)
    /\ IsOverflow(chunkState, sentences, si, chunk_size)

\* C5: when a sentence overflows the accumulation A, A is emitted and the
\* new accumulation is a suffix of A's sentences, whole and within the
\* overlap budget, followed by the triggering sentence; the suffix is empty
\* when overlap is 0 or A's last sentence alone exceeds overlap.
C5_OverlapIsSuffix ==
    [][StartsChunkByOverflow =>
        /\ chunks' = Append(chunks, SentenceChunk(current_chunk))
        /\ \E n \in 0..Len(current_chunk) :
              /\ current_chunk' = Append(Suffix(current_chunk, n), si)
              /\ TokensOf(Suffix(current_chunk, n)) <= overlap
              /\ current_tokens' =
                     TokensOf(Suffix(current_chunk, n)) + CountTokens(sentences[si])
              /\ (overlap = 0 \/
                  CountTokens(sentences[current_chunk[Len(current_chunk)]]) > overlap)
                     => n = 0]_vars

\* C5 witness: the accumulation begins with two sentences carried over from
\* the chunk emitted last.
C5_Witness ==
    /\ cpc = "loop"
    /\ chunks # <<>>
    /\ Len(current_chunk) >= 3
    /\ chunks[Len(chunks)].kind = "sentences"
    /\ {current_chunk[1], current_chunk[2]} \subseteq Range(chunks[Len(chunks)].src)


(***************************************************************************)
(* Properties of ingestion and of the index.                               *)
(***************************************************************************)
FinishesFile(i) ==
    /\ i \in 1..Len(files)
    /\ tpc[i] = "reading"
    /\ tpc'[i] = "done"

HeldFilenames == {p.filename : p \in index}

OneIdPerFilename ==
    \A p, q \in index : p.filename = q.filename => p.document_id = q.document_id

\* C6: the task of a file whose filename the index already holds ends in a
\* failure result without a document id, never past the existence check,
\* and leaves the index as it was; and at every moment the points of one
\* filename carry one document_id, whatever uploads and deletions ran.
C6_DuplicateRejected ==
    /\ []OneIdPerFilename
    /\ [][\A i \in 1..MaxFiles :
             (FinishesFile(i) /\ files[i].filename \in HeldFilenames) =>
                /\ index' = index
                /\ results'[i].status # "success"
                /\ results'[i].document_id = NoDocumentId
                /\ results'[i].chunks_created = 0
                /\ results'[i].checked # "absent"]_vars

\* A file whose filename the index held was answered with the
\* already-exists failure, after an earlier deletion of another document.
C6_Witness ==
    /\ \E i \in 1..Len(files) :
          /\ tpc[i] = "done"
          /\ results[i].checked = "exists"
          /\ files[i].filename \in HeldFilenames
          /\ results[i].status =
                "failed: Document '" \o files[i].filename
                    \o "' already exists. Delete it first to re-upload."
    /\ delete_response.kind = "deleted"

\* C7: when two files of one upload carry the same filename and both passed
\* the existence check, both are stored: each is reported a success with
\* its own document id, and the index holds points of both ids under the
\* one filename.
C7_BothStored ==
    \A i, j \in 1..Len(files) :
        (/\ i # j
         /\ files[i].filename = files[j].filename
         /\ tpc[i] = "done" /\ tpc[j] = "done"
         /\ results[i].checked = "absent" /\ results[j].checked = "absent")
        => /\ results[i].status = "success"
           /\ results[j].status = "success"
           /\ results[i].document_id # results[j].document_id
           /\ \E p, q \in index :
                 /\ p.filename = files[i].filename
                 /\ q.filename = files[i].filename
                 /\ p.document_id # q.document_id

PointsOf(document_id) == {p \in index : p.document_id = document_id}

\* C8: for every document_id of the index, its points carry one
\* total_chunks, there are exactly that many of them, and their chunk_index
\* values are exactly 0..total_chunks-1, each once.
C8_ChunkIndexContiguous ==
    \A d \in GetAllDocuments(index) :
        \E n \in 1..MaxPieces :
            /\ \A p \in PointsOf(d) : p.total_chunks = n
            /\ {p.chunk_index : p \in PointsOf(d)} = 0..(n - 1)
            /\ Cardinality(PointsOf(d)) = n

\* A document stored without its first chunk (null embedding) is numbered
\* from 0, after an ingestion was attempted and another document deleted.
C8_Witness ==
    /\ \E p \in index : p.chunk_index = 0 /\ p.chunk_text = PieceText(2)
    /\ delete_response.kind = "deleted"
    /\ \E i \in 1..Len(files) : tpc[i] = "done" /\ results[i].checked = "absent"


(***************************************************************************)
(* Properties of generation.                                               *)
(***************************************************************************)
CompletionCalls == Cardinality({i \in 1..Len(calls) : calls[i] = "completion"})

\* C1: a request whose search returned no hit ends without any call of the
\* completion model, answered by a response whose generated content is the
\* refusal message, whose sources are empty and whose warning is not null.
C1_RefusalWithoutCompletion ==
    (gpc = "done" /\ hits = <<>> /\ warning = NoSourcesWarning) =>
        /\ CompletionCalls = 0
        /\ outcome.kind = "response"
        /\ outcome.body.generated_content = Refusal
        /\ outcome.body.sources = <<>>
        /\ outcome.body.warning # None

\* The bucket of a score by the intervals: [0.8, ..) very high,
\* [0.6, 0.8) high, [0.4, 0.6) moderate, (.., 0.4) lower.
BucketsOf(score) ==
    {b \in {"Very high", "High", "Moderate", "Lower"} :
        \/ b = "Very high" /\ score >= 80000
        \/ b = "High" /\ 60000 <= score /\ score < 80000
        \/ b = "Moderate" /\ 40000 <= score /\ score < 60000
        \/ b = "Lower" /\ score < 40000}

\* C9: once the sources are created, the i-th source carries the one bucket
\* whose interval holds the i-th hit's score, the lower bound of an interval
\* belonging to it: 0.8, 0.6 and 0.4 fall in the upper bucket, 0.79999,
\* 0.59999 and 0.39999 in the lower one.
C9_BucketBoundaries ==
    gpc \in {"attributed", "done"} /\ sources # <<>> =>
        /\ Len(sources) = Len(hits)
        /\ \A i \in 1..Len(sources) :
              /\ BucketsOf(hits[i].score) = {sources[i].reason.bucket}
              /\ hits[i].score \in {80000, 90000} => sources[i].reason.bucket = "Very high"
              /\ hits[i].score \in {60000, 79999} => sources[i].reason.bucket = "High"
              /\ hits[i].score \in {40000, 59999} => sources[i].reason.bucket = "Moderate"
              /\ hits[i].score \in {30000, 39999} => sources[i].reason.bucket = "Lower"

\* Three hits scored exactly 0.8, 0.6 and 0.4 were attributed.
C9_Witness ==
    /\ gpc = "attributed"
    /\ Len(sources) = 3
    /\ hits[1].score = 80000 /\ sources[1].reason.bucket = "Very high"
    /\ hits[2].score = 60000 /\ sources[2].reason.bucket = "High"
    /\ hits[3].score = 40000 /\ sources[3].reason.bucket = "Moderate"

\* C10: a request with at least one hit whose completion returned is
\* answered by a response with the generated content and one source per
\* hit, and its warning is the low-relevance warning exactly when the mean
\* of the hits' scores is below 0.4.
C10_WarningIffLowMean ==
    (gpc = "done" /\ Len(hits) >= 1 /\ generated_content # None) =>
        /\ CompletionCalls = 1
        /\ outcome.kind = "response"
        /\ outcome.body.generated_content = generated_content
        /\ Len(outcome.body.sources) = Len(hits)
        /\ (outcome.body.warning # None) <=> (SumScores(hits) < 40000 * Len(hits))

Rank(pc) ==
    CASE pc = "idle" -> 0
      [] pc = "received" -> 1
      [] pc = "embedded" -> 2
      [] pc = "searched" -> 3
      [] pc = "completed" -> 4
      [] pc = "attributed" -> 5
      [] pc = "done" -> 6

CollaboratorCalls(name) == Cardinality({i \in 1..Len(calls) : calls[i] = name})

\* C11: within a request the position only moves forward (embed, search,
\* completion, attribution, done); the search is invoked at most once and
\* before the completion, the completion at most once, the embedding
\* collaborator at most once; and once the request has an error for an
\* answer no collaborator is invoked any more.
C11_StageOrder ==
    /\ [](/\ calls \in {<<>>, <<"search">>, <<"search", "completion">>}
          /\ CollaboratorCalls("embedding") <= 1
          /\ Len(calls) >= 1 => Rank(gpc) >= 3
          /\ Len(calls) = 2 => Rank(gpc) >= 4)
    /\ [][gpc' # gpc => (Rank(gpc') > Rank(gpc) \/ (gpc = "done" /\ gpc' = "idle"))]_vars
    /\ [][outcome # None => Len(calls') <= Len(calls)]_vars

\* A request whose completion call raised: search then completion were
\* invoked, once each, and the request is done with the error.
C11_Witness ==
    /\ gpc = "done"
    /\ calls = <<"search", "completion">>
    /\ generated_content = None
    /\ outcome.kind = "http500"

\* The answers the route gives when the search raises.
RetrievalFailureAnswers == {GenerationFailed(e) : e \in CollaboratorExceptions}

\* C12: the answer to a request whose completion call raised is none of the
\* answers given when the search raises: the reported error tells the
\* failed stage.
C12_CompletionErrorDistinct ==
    (gpc = "done" /\ calls = <<"search", "completion">> /\ generated_content = None)
        => outcome \notin RetrievalFailureAnswers

\* C13: the answer to a request whose completion returned is a response
\* with generation metadata: the query, the generation type, the number of
\* sources, the mean of the hits' scores (as their sum over their count).
C13_MetadataCarried ==
    (gpc = "done" /\ generated_content # None) =>
        /\ outcome.kind = "response"
        /\ "metadata" \in DOMAIN outcome.body
        /\ outcome.body.metadata.query = request.query
        /\ outcome.body.metadata.total_sources_used = Len(sources)
        /\ outcome.body.metadata.average_relevance
              = [sum |-> SumScores(hits), count |-> Len(hits)]

\* A filter list is given when it is neither null nor empty.
Given(o) == o.kind = "list" /\ Len(o.value) > 0

IdListed(p, req) ==
    \E i \in 1..Len(req.filters.document_ids.value) :
        req.filters.document_ids.value[i] = p.document_id

NameMatched(p, req) ==
    \E i \in 1..Len(req.filters.filenames.value) :
        MatchText(p.filename, req.filters.filenames.value[i])

IdFilterGiven(req) == req.filters.kind = "filters" /\ Given(req.filters.document_ids)

NameFilterGiven(req) == req.filters.kind = "filters" /\ Given(req.filters.filenames)

Eligible(p, req) ==
    /\ IdFilterGiven(req) => IdListed(p, req)
    /\ NameFilterGiven(req) => NameMatched(p, req)

\* C14: once the search was called, the filter handed to the index accepts
\* a point exactly when (no id filter is given or its document_id is
\* listed) and (no filename filter is given or its filename matches a
\* given pattern); no filter at all is handed over exactly when neither is
\* given; and every hit is such a point of the index.
C14_FilterSemantics ==
    search_args # None =>
        /\ \A p \in index :
              FilterAccepts(p, search_args.query_filter) <=> Eligible(p, request)
        /\ (search_args.query_filter = None)
              <=> (~IdFilterGiven(request) /\ ~NameFilterGiven(request))
        /\ \A i \in 1..Len(hits) :
              \E p \in index :
                 /\ Eligible(p, request)
                 /\ p.document_id = hits[i].document_id
                 /\ p.chunk_index = hits[i].chunk_index
                 /\ p.filename = hits[i].filename

\* Both filters given: a point with a listed id and a matching filename is
\* a hit, while the index holds a point the filter rejects.
C14_Witness ==
    /\ gpc = "searched"
    /\ IdFilterGiven(request) /\ NameFilterGiven(request)
    /\ Len(hits) >= 1
    /\ \E p \in index : ~Eligible(p, request)

\* C15: the sources created for a list of hits are as many as the hits, and
\* the i-th source has the document_id, the filename and the chunk_index of
\* the i-th hit.
C15_AttributionOneToOne ==
    gpc \in {"attributed", "done"} /\ generated_content # None =>
        /\ gpc = "attributed" => Len(sources) = Len(hits)
        /\ sources # <<>> =>
              /\ Len(sources) = Len(hits)
              /\ \A i \in 1..Len(sources) :
                    /\ sources[i].document_id = hits[i].document_id
                    /\ sources[i].filename = hits[i].filename
                    /\ sources[i].chunk_index = hits[i].chunk_index

\* Three hits, ranked otherwise than the index numbers them, attributed.
C15_Witness ==
    /\ gpc = "attributed"
    /\ Len(sources) = 3
    /\ hits[1].document_id = 2
    /\ hits[2].chunk_index = 1
    /\ hits[3].chunk_index = 0
    /\ sources[1].document_id = 2

\* C17: the context handed to the completion model is one labelled block
\* per hit, in the order of the hits: the i-th block is numbered i and has
\* the i-th hit's filename and chunk text, consecutive blocks are separated
\* by one separator and there is nothing else.
C17_ContextBlocks ==
    prompt.kind = "messages" =>
        /\ Len(hits) >= 1
        /\ Len(prompt.context) = 3 * Len(hits) - 1
        /\ \A i \in 1..Len(hits) :
              /\ prompt.context[3 * i - 2] = LabelPiece(i, hits[i].filename)
              /\ prompt.context[3 * i - 1] = TextPiece(hits[i].chunk_text)
              /\ i < Len(hits) => prompt.context[3 * i] = SeparatorPiece

\* A context of three blocks whose first block is of b.txt, the second of
\* a.txt.
C17_Witness ==
    /\ gpc = "searched"
    /\ Len(hits) = 3
    /\ hits[1].filename = "b.txt"
    /\ hits[2].filename = "a.txt"
    /\ prompt.context[1].rank = 1
    /\ prompt.context[7].rank = 3

\* C16: the excerpt of every hit is the hit's chunk_text itself when that has
\* at most 500 characters, and otherwise its first 497 characters followed
\* by "..."; so no excerpt is longer than 500 characters and a cut one has
\* exactly 500.
C16_ExcerptTruncation ==
    gpc = "attributed" =>
        /\ Len(sources) = Len(hits)
        /\ \A i \in 1..Len(sources) :
              /\ Len(sources[i].excerpt) <= 500
              /\ IF Len(hits[i].chunk_text) <= 500
                 THEN sources[i].excerpt = hits[i].chunk_text
                 ELSE /\ Len(sources[i].excerpt) = 500
                      /\ \A k \in 1..497 : sources[i].excerpt[k] = hits[i].chunk_text[k]
                      /\ \A k \in 498..500 : sources[i].excerpt[k] = "."

\* A chunk of 600 characters and one of 501 attributed together, and
\* (in another state) one of 500 characters.
C16_Witness ==
    /\ gpc = "attributed"
    /\ Len(sources) = 2
    /\ Len(hits[1].chunk_text) = 600
    /\ Len(hits[2].chunk_text) = 501
    /\ Len(sources[1].excerpt) = 500

Successes(infos) == {i \in 1..Len(infos) : infos[i].status = "success"}

\* C18: the response of a batch upload holds one result per submitted file,
\* the i-th result being that of the i-th file, and its counts of successes
\* and failures are those of the results and add up to total_files, the
\* number of files submitted; and a task that ends in a failure changes
\* neither the index nor the result or the progress of any other file, so
\* that nothing another file's outcome depends on is touched by it.
C18_BatchNeverAborted ==
    /\ [](upload_response.kind = "response" =>
            /\ upload_response.total_files = Len(files)
            /\ Len(upload_response.files) = Len(files)
            /\ \A i \in 1..Len(files) :
                  /\ upload_response.files[i].filename = files[i].filename
                  /\ upload_response.files[i] = results[i]
                  /\ upload_response.files[i].status # "pending"
            /\ upload_response.successful_uploads
                  = Cardinality(Successes(upload_response.files))
            /\ upload_response.failed_uploads
                  = Len(files) - Cardinality(Successes(upload_response.files))
            /\ upload_response.successful_uploads + upload_response.failed_uploads
                  = upload_response.total_files)
    /\ [][\A i \in 1..MaxFiles :
             (FinishesFile(i) /\ results'[i].status # "success") =>
                /\ index' = index
                /\ results'[i].filename = files[i].filename
                /\ \A j \in 1..Len(files) :
                      j # i => results'[j] = results[j] /\ tpc'[j] = tpc[j]]_vars

\* The response to a batch of two files that failed differently: a file
\* first in the batch that passed the existence check and failed later, and
\* an unsupported type second in the batch.
C18_Witness ==
    /\ upload_response.kind = "response"
    /\ upload_response.total_files = 2
    /\ upload_response.failed_uploads = 2
    /\ upload_response.files[1].filename = "a.txt"
    /\ upload_response.files[1].checked = "absent"
    /\ upload_response.files[2].filename = "c.exe"
    /\ upload_response.files[2].status = "failed: Unsupported file type"

FilenamesOf(document_id) == {p.filename : p \in PointsOf(document_id)}

\* C19: a deletion that is answered as done removes exactly the points
\* carrying the document_id, and the ingestion of a file with the deleted
\* document's filename and some text, the collaborators answering, then
\* succeeds and stores the filename; the deletion of an id that no point
\* carries is answered as not found and leaves the index as it was.
C19_DeleteThenIngestAgain ==
    [][\A d \in DeletableIds :
          DeleteDocument(d) =>
             IF PointsOf(d) = {}
             THEN delete_response'.kind = "404" /\ index' = index
             ELSE delete_response'.kind = "deleted" =>
                     /\ index' = index \ PointsOf(d)
                     /\ \A q \in index' : q.document_id # d
                     /\ \A f \in FilenamesOf(d) :
                           /\ ~DocumentExists(index', f)
                           /\ \A content \in Contents :
                                 Strip(content) # <<>> =>
                                    LET r == ProcessDocument(index', f, content,
                                                             next_uuid, TRUE, TRUE)
                                    IN  /\ ~r.raised
                                        /\ r.success
                                        /\ \E q \in r.index : q.filename = f]_vars

(***************************************************************************)
(* Properties of the batch embedding.                                      *)
(***************************************************************************)
\* C20: whatever the list of texts, a call of the batch embedding whose API
\* call did not fail returns a list as long as the list of texts, holding
\* at position i the embedding of the trimmed text i when that is not empty
\* and null when it is.
C20_BatchPositions ==
    (bpc = "done" /\ batch_result # BatchRaised("APIError", "Connection error.")) =>
        /\ batch_result.kind = "list"
        /\ Len(batch_result.value) = Len(batch_texts)
        /\ \A i \in 1..Len(batch_texts) :
              batch_result.value[i] =
                 IF Strip(ReplaceNewlines(batch_texts[i])) # <<>>
                 THEN EmbeddingOf(Strip(ReplaceNewlines(batch_texts[i])))
                 ELSE None

(***************************************************************************)
(* Properties of the chunker under the configured sizes.                   *)
(***************************************************************************)
\* Chunk i begins with one or more sentences that end chunk i - 1.
BeginsWithTailOfPrevious(i) ==
    /\ chunks[i].kind = "sentences"
    /\ chunks[i - 1].kind = "sentences"
    /\ \E n \in 1..Len(chunks[i - 1].src) :
          /\ n <= Len(chunks[i].src)
          /\ SubSeq(chunks[i].src, 1, n) = Suffix(chunks[i - 1].src, n)

ScenarioRunDone ==
    /\ cpc = "done"
    /\ CountTokens(text) = 1200
    /\ chunk_size = 500
    /\ overlap = 50

\* C21 as stated: every document of 1200 tokens chunked with chunk_size 500
\* and overlap 50 gives exactly 3 chunks, the second and the third beginning
\* with sentences from the tail of the chunk before.
C21_ThreeChunksAnyDocument ==
    ScenarioRunDone =>
        /\ Len(chunks) = 3
        /\ \A i \in 2..Len(chunks) : BeginsWithTailOfPrevious(i)

\* C21 amended: a document of 1200 tokens none of whose sentences has more
\* than 50 tokens, chunked with chunk_size 500 and overlap 50, gives exactly
\* 3 chunks, the second and the third beginning with one or more sentences
\* from the tail of the chunk before.
C21_ThreeChunksShortSentences ==
    (/\ ScenarioRunDone
     /\ \A k \in 1..Len(sentences) : CountTokens(sentences[k]) <= 50) =>
        /\ Len(chunks) = 3
        /\ \A i \in 2..Len(chunks) : BeginsWithTailOfPrevious(i)

\* A document of sentences of 30, 20 and 50 tokens chunked into three.
C21_Witness ==
    /\ ScenarioRunDone
    /\ Len(sentences) > 30
    /\ CountTokens(sentences[1]) = 30
    /\ CountTokens(sentences[2]) = 20
    /\ CountTokens(sentences[3]) = 50
    /\ Len(chunks) = 3
    /\ BeginsWithTailOfPrevious(2)
    /\ BeginsWithTailOfPrevious(3)

(***************************************************************************)
(* Termination of a generation request.                                    *)
(***************************************************************************)
TerminalOutcome(o) ==
    \/ o.kind = "response" /\ Len(o.body.sources) >= 1
    \/ o.kind = "response" /\ o.body.sources = <<>>
                           /\ o.body.generated_content = Refusal
                           /\ o.body.warning = NoSourcesWarning
    \/ o.kind \in {"http400", "http500"}

\* C22: every collaborator call returning or raising, a request that has
\* entered generate reaches the end with an answer; there is an answer
\* exactly when the request is at its end, the answer is a result with at
\* least one source, the no-sources result or an error, and an answer once
\* given is not replaced by another.
C22_OneTerminalOutcome ==
    /\ (gpc = "received") ~> (gpc = "done" /\ outcome # None)
    /\ []((outcome # None <=> gpc = "done")
          /\ (outcome # None => TerminalOutcome(outcome)))
    /\ [][outcome # None => (outcome' = outcome \/ (outcome' = None /\ gpc' = "idle"))]_vars

\* A request at its end after all stages ran: search and completion were
\* called, sources were attributed, and there is one answer.
C22_Witness ==
    /\ gpc = "done"
    /\ calls = <<"search", "completion">>
    /\ Len(sources) >= 2
    /\ outcome # None
    /\ TerminalOutcome(outcome)

(***************************************************************************)
(* Properties of the segmenter.                                            *)
(***************************************************************************)
Segmented == cpc = "loop" /\ si = 1

HasTerminal(s) == \E i \in 1..Len(s) : s[i] \in Terminal

\* The non-empty lines of a text, each with its whitespace runs collapsed.
NonEmptyLines(s) ==
    LET lines == SplitOn(s, "\n")
        collapsed == [i \in 1..Len(lines) |-> Join(Split(lines[i]))]
    IN  SelectSeq(collapsed, LAMBDA l : l # <<>>)

\* C23: for a text without '.', '!' and '?', the sentences the segmenter
\* returns are the non-empty lines of the text, one sentence per line in
\* order, and the whole text as the one sentence only when there is no
\* non-empty line.
C23_NewlineFallback ==
    (Segmented /\ ~HasTerminal(text)) =>
        IF NonEmptyLines(text) # <<>>
        THEN sentences = NonEmptyLines(text)
        ELSE sentences = <<Join(Split(text))>>

NonWhitespaceOf(s) == SelectSeq(s, LAMBDA c : c \notin Whitespace)

EndsInTerminal(s) == s # <<>> /\ s[Len(s)] \in Terminal

AtLongSentence ==
    /\ cpc = "loop" /\ si <= Len(sentences)
    /\ IsLong(sentences, si, chunk_size)

\* The sentence chunks built so far: those emitted and the accumulation.
SentenceRuns ==
    {chunks[i].src : i \in {j \in 1..Len(chunks) : chunks[j].kind = "sentences"}}
        \cup {current_chunk}

\* C25: the step for a sentence longer than chunk_size emits the pending
\* accumulation, when there is one, as a chunk of its own, then the words
\* of the sentence in order in one or more chunks, each word in exactly one
\* of them, and leaves an empty accumulation; and no chunk of sentences
\* ever holds a long sentence or reaches across one: the chunk holding the
\* sentence after a long one holds nothing from before it.
C25_LongSentenceResets ==
    /\ [][AtLongSentence =>
            LET base == IF current_chunk # <<>>
                        THEN Append(chunks, SentenceChunk(current_chunk))
                        ELSE chunks
            IN  /\ Len(chunks') > Len(base)
                /\ SubSeq(chunks', 1, Len(base)) = base
                /\ \A i \in (Len(base) + 1)..Len(chunks') :
                      /\ chunks'[i].kind = "words"
                      /\ chunks'[i].src = <<si>>
                      /\ chunks'[i].words # <<>>
                /\ Concat([i \in 1..(Len(chunks') - Len(base)) |->
                              chunks'[Len(base) + i].words])
                      = Split(sentences[si])
                /\ current_chunk' = <<>>
                /\ current_tokens' = 0]_vars
    /\ [](\A run \in SentenceRuns :
            \A k \in 1..Len(sentences) :
                IsLong(sentences, k, chunk_size) =>
                    /\ k \notin Range(run)
                    /\ \/ \A i \in 1..Len(run) : run[i] < k
                       \/ \A i \in 1..Len(run) : run[i] > k)

\* A finished run in which a pending accumulation was emitted before the
\* words of a long sentence, these came out in two chunks or more, and the
\* chunk after them begins with the next sentence.
C25_Witness ==
    /\ cpc = "done"
    /\ \E i \in 2..(Len(chunks) - 2) :
          /\ chunks[i - 1].kind = "sentences"
          /\ chunks[i].kind = "words"
          /\ chunks[i + 1].kind = "words"
          /\ chunks[i + 1].src = chunks[i].src
          /\ chunks[i - 1].src[Len(chunks[i - 1].src)] = chunks[i].src[1] - 1
          /\ chunks[i + 2].kind = "sentences"
          /\ chunks[i + 2].src[1] = chunks[i].src[1] + 1

(***************************************************************************)
(* The arguments of the search.                                            *)
(***************************************************************************)
\* C26: the limit handed to the search is the request's top_k whenever the
\* request has one, and the configured top_k only when it has none.
C26_LimitIsRequestTopK ==
    search_args.kind = "search" =>
        search_args.limit = (IF request.top_k.kind = "int"
                             THEN request.top_k.value
                             ELSE SettingsTopK)

(***************************************************************************)
(* Ingestion is all or nothing.                                            *)
(***************************************************************************)
\* The lists of embeddings the storing part of process_document may get:
\* per chunk a vector or None.
StageEmbeddings == UNION {[1..n -> {"vec", "None"}] : n \in 1..MaxPieces}

Embedded(pieces) == Cardinality({i \in 1..Len(pieces) : pieces[i] # "None"})

\* C27: a task that ends in a failure leaves the index as it was, and one
\* that ends in a success has added points of its document_id only, as
\* many as chunks_created; and the storing part of process_document, given
\* any list of embeddings for the chunks and a write that succeeds or
\* fails, either reports a failure with the index as it was, or reports a
\* success with exactly the embedded chunks added under the new
\* document_id and chunks_created their number.
C27_FailureLeavesIndex ==
    /\ [][\A i \in 1..MaxFiles :
             FinishesFile(i) =>
                IF results'[i].status = "success"
                THEN /\ index \subseteq index'
                     /\ Cardinality(index' \ index) = results'[i].chunks_created
                     /\ \A p \in index' \ index :
                           p.document_id = results'[i].document_id
                ELSE index' = index]_vars
    /\ [](\A fn \in {n \in FileNames : IsSupportedFile(n)} :
           \A pieces \in StageEmbeddings :
             \A upsert_ok \in BOOLEAN :
               LET r == StoreStage(index, fn,
                                   [i \in 1..Len(pieces) |-> PieceText(i)],
                                   pieces, next_uuid, upsert_ok)
               IN  IF r.success
                   THEN /\ upsert_ok
                        /\ index \subseteq r.index
                        /\ r.document_id = next_uuid
                        /\ r.chunks_created = Embedded(pieces)
                        /\ Cardinality(r.index \ index) = Embedded(pieces)
                        /\ \A p \in r.index \ index :
                              p.document_id = next_uuid /\ p.filename = fn
                   ELSE r.index = index)

\* Two files of one upload have failed, one on a filename the index holds
\* and one after the existence check, and the index holds what it held.
C27_Witness ==
    /\ index # {}
    /\ Len(files) = 2
    /\ tpc = <<"done", "done">>
    /\ results[1].checked = "exists"
    /\ results[2].checked = "absent"
    /\ results[2].status = "failed: TypeError"
    /\ results[2].filename \notin HeldFilenames
    /\ delete_response.kind = "none"

(***************************************************************************)
(* Empty filter lists.                                                     *)
(***************************************************************************)
\* An empty list read as no list.
EmptyAsAbsent(o) == IF o.kind = "list" /\ o.value = <<>> THEN None ELSE o

NothingToFilterBy(o) == EmptyAsAbsent(o) = None

\* C28: the filter handed to the search is the one the request would give
\* with its empty lists left out; when neither category has an element
\* there is no filter at all and every point of the index passes.
C28_EmptyListIsAbsent ==
    search_args.kind = "search" =>
        /\ search_args.query_filter =
              QueryFilter(EmptyAsAbsent(FilterDocumentIds(request)),
                          EmptyAsAbsent(FilterFilenames(request)))
        /\ (/\ NothingToFilterBy(FilterDocumentIds(request))
            /\ NothingToFilterBy(FilterFilenames(request)))
           => /\ search_args.query_filter = None
              /\ \A p \in index :
                    PassesFilter(p, FilterDocumentIds(request), FilterFilenames(request))

\* A request whose two filter lists are empty got chunks of both documents.
C28_Witness ==
    /\ gpc = "searched"
    /\ request.filters.kind = "filters"
    /\ request.filters.document_ids = List(<<>>)
    /\ request.filters.filenames = List(<<>>)
    /\ search_args.query_filter = None
    /\ \E i, j \in 1..Len(hits) : hits[i].document_id = 1 /\ hits[j].document_id = 2

====
